---------------------------- MODULE Spec2Model ----------------------------
(* Model of convert.py (Sharp2WebGL): the PLY header parser, the scalar    *)
(* type table, the binary vertex table reader, the schema builder, the     *)
(* column reconciliation inside convert(), the vertex-only binary writer   *)
(* and the staged control flow of convert() followed by main()'s summary.  *)
(*                                                                         *)
(* Representation.  A file is [header, body]: header is the sequence of    *)
(* text lines before the binary data, each line being the token sequence   *)
(* that line.strip().split() yields; body is the sequence of bytes after   *)
(* the header.  Decimal counts are digit sequences, so that formatting and *)
(* int() are computed.  A byte is 0..255.  A float32 value is the record   *)
(* [s, e, m] of its IEEE-754 sign, biased exponent and 23-bit mantissa; a  *)
(* Python float (double) is [s, e, hi, lo] with the 52-bit mantissa split  *)
(* in its upper 23 bits (hi) and lower 29 bits (lo).                       *)
EXTENDS Integers, Sequences, FiniteSets, TLC

(***************************************************************************)
(* Bounds of the model                                                     *)
(***************************************************************************)
\* largest vertex count declared by a generated header
MaxCount == 2
\* number of different value seeds used to fill a generated source body
MaxSeed == 1

(***************************************************************************)
(* State                                                                   *)
(***************************************************************************)
VARIABLES
    teaser_file,     \* the file at teaser_path
    train_file,      \* the file at train_path
    out_file,        \* the file at output_path: [opened, header, body]
    pc,              \* the stage convert() is about to run
    stages,          \* the stages run so far, in order
    err,             \* the exception that ended the call, or NoError
    teaser_header,   \* convert's local teaser_header
    train_header,    \* convert's local train_header
    target_schema,   \* convert's local target_schema; the writer's schema
    teaser_cols,     \* convert's local teaser_cols: [set, arrays]
    out_cols,        \* convert's local out_cols; the writer's columns
    n,               \* convert's local n; the writer's vertex_count
    row,             \* the writer's loop variable i
    body_read,       \* number of body bytes read from the teaser file
    summary,         \* what main() prints after convert()
    sharp_tasks,     \* routes/sharp.py: the global dict task_id -> entry
    updates,         \* per task, the update_task_status calls made so far
    thread,          \* per upload, the position and locals of upload_image
                     \* and of the _run_sharp_task thread it starts
    folders,         \* the image folders that exist in the user's directory
    folder_files,    \* per existing folder, the files it holds
    models_xml,      \* the user's models.xml: [exists, partial, paths,
                     \* overwritten]
    app_context,     \* TRUE iff current_app is bound in a background thread
    config           \* the attribute names that class Config defines

convvars == <<teaser_file, train_file, out_file, pc, stages, err,
              teaser_header, train_header, target_schema, teaser_cols,
              out_cols, n, row, body_read, summary>>

webvars == <<sharp_tasks, updates, thread, folders, folder_files, models_xml,
             app_context, config>>

vars == <<convvars, webvars>>

(***************************************************************************)
(* Arithmetic helpers                                                      *)
(***************************************************************************)
RECURSIVE Pow2(_)
Pow2(k) == IF k = 0 THEN 1 ELSE 2 * Pow2(k - 1)

\* index of the highest set bit of num > 0
RECURSIVE ILog2(_)
ILog2(num) == IF num <= 1 THEN 0 ELSE 1 + ILog2(num \div 2)

Reverse(s) == [i \in 1..Len(s) |-> s[Len(s) + 1 - i]]

RECURSIVE Flatten(_)
Flatten(ss) == IF ss = <<>> THEN <<>> ELSE Head(ss) \o Flatten(Tail(ss))

(***************************************************************************)
(* Scalar type table and struct layout                                     *)
(***************************************************************************)
PLY_TYPE_TO_STRUCT ==
    [t \in {"char", "int8", "uchar", "uint8", "short", "int16", "ushort",
            "uint16", "int", "int32", "uint", "uint32", "float", "float32",
            "double", "float64"} |->
       CASE t \in {"char", "int8"}      -> "b"
         [] t \in {"uchar", "uint8"}    -> "B"
         [] t \in {"short", "int16"}    -> "h"
         [] t \in {"ushort", "uint16"}  -> "H"
         [] t \in {"int", "int32"}      -> "i"
         [] t \in {"uint", "uint32"}    -> "I"
         [] t \in {"float", "float32"}  -> "f"
         [] t \in {"double", "float64"} -> "d"]

\* struct's standard size of one format character (no alignment with < or >)
CharSize(c) ==
    CASE c \in {"b", "B"}      -> 1
      [] c \in {"h", "H"}      -> 2
      [] c \in {"i", "I", "f"} -> 4
      [] c = "d"               -> 8

RECURSIVE SumSizes(_)
SumSizes(chars) ==
    IF chars = <<>> THEN 0 ELSE CharSize(Head(chars)) + SumSizes(Tail(chars))

\* _struct_for_vertex: the struct.Struct for a property list, or ValueError
struct_for_vertex_default(props, endian) ==
    LET chars == [k \in 1..Len(props) |->
                    IF props[k][1] \in DOMAIN PLY_TYPE_TO_STRUCT
                    THEN PLY_TYPE_TO_STRUCT[props[k][1]] ELSE "f"]
    IN  [ok |-> TRUE, endian |-> endian, chars |-> chars,
         size |-> SumSizes(chars)]

struct_for_vertex(props, endian) ==
    IF \E k \in 1..Len(props) : props[k][1] \notin DOMAIN PLY_TYPE_TO_STRUCT
    THEN [ok |-> FALSE, endian |-> endian, chars |-> <<>>, size |-> 0]
    ELSE LET chars == [k \in 1..Len(props) |-> PLY_TYPE_TO_STRUCT[props[k][1]]]
         IN  [ok |-> TRUE, endian |-> endian, chars |-> chars,
              size |-> SumSizes(chars)]

\* _endian_for_format
endian_for_format(fmt) ==
    CASE fmt = "binary_little_endian" -> [ok |-> TRUE, endian |-> "<"]
      [] fmt = "binary_big_endian"    -> [ok |-> TRUE, endian |-> ">"]
      [] OTHER                        -> [ok |-> FALSE, endian |-> ""]

(***************************************************************************)
(* IEEE-754 values and conversions                                         *)
(***************************************************************************)
F32(s, e, m) == [s |-> s, e |-> e, m |-> m]
F64(s, e, hi, lo) == [s |-> s, e |-> e, hi |-> hi, lo |-> lo]

\* np.zeros(..., dtype=float32) element, and ndarray.fill(0.0)
Zero32 == F32(0, 0, 0)

\* float(np.float32): exact widening of a float32 to a Python float
Widen(v) ==
    CASE v.e = 255            -> F64(v.s, 2047, v.m, 0)
      [] v.e = 0 /\ v.m = 0   -> F64(v.s, 0, 0, 0)
      [] v.e = 0 /\ v.m > 0   ->
            LET k == ILog2(v.m)
            IN  F64(v.s, k + 874, (v.m - Pow2(k)) * Pow2(23 - k), 0)
      [] OTHER                -> F64(v.s, v.e + 896, v.m, 0)

\* conversion of a Python float to float32, round to nearest even, as done
\* by storing into a float32 ndarray and by struct's "f" format
Narrow(d) ==
    LET e == d.e - 896 IN
    CASE d.e = 2047 ->
            IF d.hi = 0 /\ d.lo = 0 THEN F32(d.s, 255, 0)
            ELSE F32(d.s, 255, IF d.hi < 4194304 THEN d.hi + 4194304 ELSE d.hi)
      [] d.e = 0 -> F32(d.s, 0, 0)
      [] d.e # 2047 /\ d.e # 0 /\ e >= 255 -> F32(d.s, 255, 0)
      [] d.e # 0 /\ e >= 1 /\ e <= 254 ->
            LET up == d.lo > 268435456 \/ (d.lo = 268435456 /\ d.hi % 2 = 1)
                m1 == IF up THEN d.hi + 1 ELSE d.hi
                e1 == IF m1 = 8388608 THEN e + 1 ELSE e
                m2 == IF m1 = 8388608 THEN 0 ELSE m1
            IN  IF e1 >= 255 THEN F32(d.s, 255, 0) ELSE F32(d.s, e1, m2)
      [] d.e # 0 /\ e <= 0 ->
            LET sh == 1 - e IN
            IF sh > 25 THEN F32(d.s, 0, 0)
            ELSE LET sig == 8388608 + d.hi
                     q == sig \div Pow2(sh)
                     r == sig % Pow2(sh)
                     half == Pow2(sh - 1)
                     up == r > half
                           \/ (r = half /\ (d.lo > 0 \/ q % 2 = 1))
                     m1 == IF up THEN q + 1 ELSE q
                 IN  IF m1 = 8388608 THEN F32(d.s, 1, 0) ELSE F32(d.s, 0, m1)

\* float(int): the Python float of an integer given as sign and magnitude
\* hi * 2^16 + lo (exact below 2^53)
IntToDouble(neg, hi, lo) ==
    IF hi = 0 /\ lo = 0 THEN F64(0, 0, 0, 0)
    ELSE LET k == IF hi > 0 THEN 16 + ILog2(hi) ELSE ILog2(lo)
             frac == IF hi > 0 THEN (hi - Pow2(k - 16)) * 65536 + lo
                     ELSE lo - Pow2(k)
             s == IF neg THEN 1 ELSE 0
         IN  IF k <= 23
             THEN F64(s, 1023 + k, frac * Pow2(23 - k), 0)
             ELSE F64(s, 1023 + k, frac \div Pow2(k - 23),
                      (frac % Pow2(k - 23)) * Pow2(52 - k))

\* big-endian byte images
F32Bytes(v) ==
    << v.s * 128 + v.e \div 2, (v.e % 2) * 128 + v.m \div 65536,
       (v.m \div 256) % 256, v.m % 256 >>

F32OfBytes(b) ==
    F32(b[1] \div 128, (b[1] % 128) * 2 + b[2] \div 128,
        (b[2] % 128) * 65536 + b[3] * 256 + b[4])

F64Bytes(d) ==
    << d.s * 128 + d.e \div 16, (d.e % 16) * 16 + d.hi \div 524288,
       (d.hi \div 2048) % 256, (d.hi \div 8) % 256,
       (d.hi % 8) * 32 + d.lo \div 16777216, (d.lo \div 65536) % 256,
       (d.lo \div 256) % 256, d.lo % 256 >>

F64OfBytes(b) ==
    F64(b[1] \div 128, (b[1] % 128) * 16 + b[2] \div 16,
        (b[2] % 16) * 524288 + b[3] * 2048 + b[4] * 8 + b[5] \div 32,
        (b[5] % 32) * 16777216 + b[6] * 65536 + b[7] * 256 + b[8])

\* the integer held by big-endian bytes b, as float(int)
IntOfBytes(b, signed) ==
    LET w == Len(b)
        hi == IF w = 4 THEN b[1] * 256 + b[2] ELSE 0
        lo == CASE w = 1 -> b[1]
                [] w = 2 -> b[1] * 256 + b[2]
                [] w = 4 -> b[3] * 256 + b[4]
        neg == signed /\ b[1] >= 128
        \* magnitude of a negative two's complement number: 2^(8w) - u
        nlo == CASE w = 1 -> 256 - lo
                 [] w = 2 -> 65536 - lo
                 [] w = 4 -> IF lo = 0 THEN 0 ELSE 65536 - lo
        nhi == IF w = 4 THEN (IF lo = 0 THEN 65536 - hi ELSE 65535 - hi)
               ELSE 0
    IN  IF neg THEN IntToDouble(TRUE, nhi, nlo) ELSE IntToDouble(FALSE, hi, lo)

\* st.unpack of one field followed by float(v): the Python float of the
\* field whose bytes, in file order, are chunk
UnpackField(c, endian, chunk) ==
    LET b == IF endian = "<" THEN Reverse(chunk) ELSE chunk IN
    CASE c = "f" -> Widen(F32OfBytes(b))
      [] c = "d" -> F64OfBytes(b)
      [] c \in {"b", "h", "i"} -> IntOfBytes(b, TRUE)
      [] c \in {"B", "H", "I"} -> IntOfBytes(b, FALSE)

PackFieldBigEndian(c, endian, v) ==
    LET b == CASE c = "f" -> F32Bytes(Narrow(Widen(v)))
               [] c = "d" -> F64Bytes(Widen(v))
               [] OTHER   -> <<>>
    IN  IF c \in {"f", "d"}
        THEN [ok |-> TRUE, bytes |-> b]
        ELSE [ok |-> FALSE, bytes |-> <<>>]

\* st.pack of one np.float32 field: the bytes in file order, or struct.error
\* (an integer format does not accept a float32, which has no __index__)
PackField(c, endian, v) ==
    LET b == CASE c = "f" -> F32Bytes(Narrow(Widen(v)))
               [] c = "d" -> F64Bytes(Widen(v))
               [] OTHER   -> <<>>
    IN  IF c \in {"f", "d"}
        THEN [ok |-> TRUE, bytes |-> IF endian = "<" THEN Reverse(b) ELSE b]
        ELSE [ok |-> FALSE, bytes |-> <<>>]

(***************************************************************************)
(* Decimal text of integers                                                *)
(***************************************************************************)
DigitChars == <<"0", "1", "2", "3", "4", "5", "6", "7", "8", "9">>

DigitVal(c) == (CHOOSE i \in 1..10 : DigitChars[i] = c) - 1

IsDigit(c) == \E i \in 1..10 : DigitChars[i] = c

RECURSIVE DigitsOf(_)
DigitsOf(num) ==
    IF num < 10 THEN <<DigitChars[num + 1]>>
    ELSE DigitsOf(num \div 10) \o <<DigitChars[(num % 10) + 1]>>

\* f"{num}" for an int num
FormatInt(num) == IF num < 0 THEN <<"-">> \o DigitsOf(0 - num) ELSE DigitsOf(num)

RECURSIVE DigitsValue(_, _)
DigitsValue(ds, acc) ==
    IF ds = <<>> THEN acc
    ELSE DigitsValue(Tail(ds), acc * 10 + DigitVal(Head(ds)))

\* int(tok): optional sign followed by decimal digits, otherwise ValueError
ParseInt(tok) ==
    LET signed == tok # <<>> /\ Head(tok) \in {"+", "-"}
        ds == IF signed THEN Tail(tok) ELSE tok
        good == ds # <<>> /\ \A i \in 1..Len(ds) : IsDigit(ds[i])
        mag == IF good THEN DigitsValue(ds, 0) ELSE 0
    IN  [ok |-> good,
         val |-> IF signed /\ Head(tok) = "-" THEN 0 - mag ELSE mag]

(***************************************************************************)
(* Errors                                                                  *)
(***************************************************************************)
\* an exception: its Python class, the raise site, and the record index an
\* EOFError of the body reader names (-1 elsewhere)
Exc(kind, what, at) == [kind |-> kind, what |-> what, at |-> at]

NoError == Exc("none", "none", -1)

(***************************************************************************)
(* parse_ply_header                                                        *)
(***************************************************************************)
\* A PlyHeader, or the exception raised instead of returning one.
\* data_start_offset counts the header lines consumed, terminator included:
\* the binary data starts right after them.
PlyHeader(fmt, version, vc, props, lines, off) ==
    [ok |-> TRUE, err |-> NoError, format |-> fmt, version |-> version,
     vertex_count |-> vc, vertex_properties |-> props,
     header_lines |-> lines, data_start_offset |-> off]

HeaderError(e) ==
    [ok |-> FALSE, err |-> e, format |-> "", version |-> "",
     vertex_count |-> 0, vertex_properties |-> <<>>,
     header_lines |-> <<>>, data_start_offset |-> 0]

\* one "property" line met while in_vertex: the (type, name) pair to append,
\* or the ValueError raised (lines 112-123)
VertexPropertySkipsList(parts) ==
    IF Len(parts) = 3
    THEN [ok |-> TRUE, append |-> TRUE, prop |-> <<parts[2], parts[3]>>,
          err |-> NoError]
    ELSE IF Len(parts) >= 5 /\ parts[2] = "list"
         THEN [ok |-> TRUE, append |-> FALSE, prop |-> <<>>, err |-> NoError]
         ELSE [ok |-> FALSE, append |-> FALSE, prop |-> <<>>,
               err |-> Exc("ValueError", "property_line", -1)]

VertexProperty(parts) ==
    IF Len(parts) = 3
    THEN [ok |-> TRUE, append |-> TRUE, prop |-> <<parts[2], parts[3]>>,
          err |-> NoError]
    ELSE IF Len(parts) >= 5 /\ parts[2] = "list"
         THEN [ok |-> FALSE, append |-> FALSE, prop |-> <<>>,
               err |-> Exc("ValueError", "list_property", -1)]
         ELSE [ok |-> FALSE, append |-> FALSE, prop |-> <<>>,
               err |-> Exc("ValueError", "property_line", -1)]

\* line 106: the value of in_vertex after an element line naming elem_name
ElementTracksAny(elem_name) == TRUE

ElementTracksVertex(elem_name) == elem_name = "vertex"

\* the while-loop of parse_ply_header from line k on; has_vc is
\* "vertex_count is not None"
RECURSIVE ParseLoop(_, _, _, _, _, _, _, _)
ParseLoop(lines, k, fmt, version, has_vc, vc, props, in_vertex) ==
    IF k > Len(lines) THEN HeaderError(Exc("EOFError", "eof_header", -1))
    ELSE
    LET parts == lines[k] IN
    CASE Len(parts) = 1 /\ parts[1] = "end_header" ->
            IF ~has_vc THEN HeaderError(Exc("ValueError", "no_vertex", -1))
            ELSE PlyHeader(fmt, version, vc, props, SubSeq(lines, 1, k), k)
      [] Len(parts) = 0 ->
            ParseLoop(lines, k + 1, fmt, version, has_vc, vc, props, in_vertex)
      [] Len(parts) >= 1 /\ parts[1] = "element" ->
            IF Len(parts) # 3
            THEN HeaderError(Exc("ValueError", "element_line", -1))
            ELSE LET cnt == ParseInt(parts[3]) IN
                 IF ~cnt.ok
                 THEN HeaderError(Exc("ValueError", "int_literal", -1))
                 ELSE LET tracking == ElementTracksVertex(parts[2]) IN
                      ParseLoop(lines, k + 1, fmt, version,
                                has_vc \/ tracking,
                                IF tracking THEN cnt.val ELSE vc,
                                props, tracking)
      [] Len(parts) >= 1 /\ parts[1] = "property" ->
            IF ~in_vertex
            THEN ParseLoop(lines, k + 1, fmt, version, has_vc, vc, props,
                           in_vertex)
            ELSE LET r == VertexProperty(parts) IN
                 IF ~r.ok THEN HeaderError(r.err)
                 ELSE ParseLoop(lines, k + 1, fmt, version, has_vc, vc,
                                IF r.append THEN Append(props, r.prop)
                                ELSE props,
                                in_vertex)
      [] OTHER ->
            ParseLoop(lines, k + 1, fmt, version, has_vc, vc, props, in_vertex)

parse_ply_header_checks_format(file) ==
    LET lines == file.header IN
    IF Len(lines) < 1 THEN HeaderError(Exc("EOFError", "eof_header", -1))
    ELSE IF ~(Len(lines[1]) = 1 /\ lines[1][1] = "ply")
    THEN HeaderError(Exc("ValueError", "not_ply", -1))
    ELSE IF Len(lines) < 2 THEN HeaderError(Exc("EOFError", "eof_header", -1))
    ELSE IF Len(lines[2]) # 3 \/ lines[2][1] # "format"
    THEN HeaderError(Exc("ValueError", "format_line", -1))
    ELSE IF ~endian_for_format(lines[2][2]).ok
    THEN HeaderError(Exc("ValueError", "unsupported_format", -1))
    ELSE ParseLoop(lines, 3, lines[2][2], lines[2][3], FALSE, 0, <<>>, FALSE)

\* parse_ply_header(path) on the file at path
parse_ply_header(file) ==
    LET lines == file.header IN
    IF Len(lines) < 1 THEN HeaderError(Exc("EOFError", "eof_header", -1))
    ELSE IF ~(Len(lines[1]) = 1 /\ lines[1][1] = "ply")
    THEN HeaderError(Exc("ValueError", "not_ply", -1))
    ELSE IF Len(lines) < 2 THEN HeaderError(Exc("EOFError", "eof_header", -1))
    ELSE IF Len(lines[2]) # 3 \/ lines[2][1] # "format"
    THEN HeaderError(Exc("ValueError", "format_line", -1))
    ELSE ParseLoop(lines, 3, lines[2][2], lines[2][3], FALSE, 0, <<>>, FALSE)

(***************************************************************************)
(* read_vertex_table_binary                                                *)
(***************************************************************************)
\* content of an np.empty element that has not been assigned yet
Uninit == F32(-1, -1, -1)

PropNames(props) == {props[k][2] : k \in 1..Len(props)}

\* byte offset of field k inside one record
FieldOffset(chars, k) == SumSizes(SubSeq(chars, 1, k - 1))

\* lines 177-179: unpack record i (0-based) from chunk and store each value,
\* in declaration order, into arrays[p_name][i]
RECURSIVE StoreRow(_, _, _, _, _, _)
StoreRow(arrays, props, st, chunk, i, k) ==
    IF k > Len(props) THEN arrays
    ELSE LET c == st.chars[k]
             off == FieldOffset(st.chars, k)
             v == UnpackField(c, st.endian,
                              SubSeq(chunk, off + 1, off + CharSize(c)))
             nm == props[k][2]
         IN  StoreRow([arrays EXCEPT ![nm][i + 1] = Narrow(v)],
                      props, st, chunk, i, k + 1)

\* what the reader hands back: the table, or the exception; read is the
\* number of body bytes consumed
ReadResult(ok, e, arrays, read) ==
    [ok |-> ok, err |-> e, arrays |-> arrays, read |-> read]

\* lines 173-176: record i could not be read in full
ShortReadReturnsPartial(arrays, i, read) == ReadResult(TRUE, NoError, arrays, read)

ShortRead(arrays, i, read) ==
    ReadResult(FALSE, Exc("EOFError", "eof_body", i), <<>>, read)

\* lines 171-179: the record loop from record i on
RECURSIVE ReadRows(_, _, _, _, _)
ReadRows(body, header, st, arrays, i) ==
    IF i >= header.vertex_count
    THEN ReadResult(TRUE, NoError, arrays, i * st.size)
    ELSE LET avail == Len(body) - i * st.size
             chunk == SubSeq(body, i * st.size + 1, (i + 1) * st.size)
         IN  IF avail < st.size
             THEN ShortRead(arrays, i,
                            i * st.size + (IF avail > 0 THEN avail ELSE 0))
             ELSE ReadRows(body, header, st,
                           StoreRow(arrays, header.vertex_properties, st,
                                    chunk, i, 1),
                           i + 1)

\* read_vertex_table_binary(path, header) on the file at path
read_vertex_table_binary(file, header) ==
    IF header.format \notin {"binary_little_endian", "binary_big_endian"}
    THEN ReadResult(FALSE, Exc("ValueError", "unsupported_format", -1), <<>>, 0)
    ELSE
    LET en == endian_for_format(header.format)
        st == struct_for_vertex(header.vertex_properties, en.endian)
    IN
    IF ~st.ok
    THEN ReadResult(FALSE, Exc("ValueError", "unsupported_type", -1), <<>>, 0)
    ELSE IF header.vertex_properties # <<>> /\ header.vertex_count < 0
    THEN ReadResult(FALSE, Exc("ValueError", "negative_dimensions", -1),
                    <<>>, 0)
    ELSE ReadRows(file.body, header, st,
                  [nm \in PropNames(header.vertex_properties) |->
                      [j \in 1..header.vertex_count |-> Uninit]],
                  0)

(***************************************************************************)
(* build_target_schema_from_train_header and the reconciliation of convert *)
(***************************************************************************)
RECURSIVE Dedup(_, _)
Dedup(props, seen) ==
    IF props = <<>> THEN <<>>
    ELSE IF Head(props)[2] \in seen THEN Dedup(Tail(props), seen)
    ELSE <<Head(props)>> \o Dedup(Tail(props), seen \cup {Head(props)[2]})

build_target_schema_dedup(header) ==
    Dedup(header.vertex_properties, {})

build_target_schema_from_train_header(header) ==
    header.vertex_properties

\* the names of lines 246-252
ExplicitZeroNames ==
    {"nx", "ny", "nz",
     "f_rest_0", "f_rest_1", "f_rest_2", "f_rest_3", "f_rest_4", "f_rest_5",
     "f_rest_6", "f_rest_7", "f_rest_8", "f_rest_9", "f_rest_10",
     "f_rest_11", "f_rest_12", "f_rest_13", "f_rest_14", "f_rest_15",
     "f_rest_16", "f_rest_17", "f_rest_18", "f_rest_19", "f_rest_20",
     "f_rest_21", "f_rest_22", "f_rest_23", "f_rest_24", "f_rest_25",
     "f_rest_26", "f_rest_27", "f_rest_28", "f_rest_29", "f_rest_30",
     "f_rest_31", "f_rest_32", "f_rest_33", "f_rest_34", "f_rest_35",
     "f_rest_36", "f_rest_37", "f_rest_38", "f_rest_39", "f_rest_40",
     "f_rest_41", "f_rest_42", "f_rest_43", "f_rest_44"}

\* np.zeros((n,), dtype=float32)
Zeros(cnt) == [j \in 1..cnt |-> Zero32]

\* lines 235-252: out_cols for the target schema, or the ValueError of
\* np.zeros for a negative n
ReconcileColumns(schema, cols, cnt) ==
    LET names == PropNames(schema)
        first == [nm \in names |->
                     IF nm \in DOMAIN cols THEN cols[nm] ELSE Zeros(cnt)]
        filled == [nm \in names |->
                     IF nm \in ExplicitZeroNames /\ nm \notin DOMAIN cols
                     THEN [j \in 1..Len(first[nm]) |-> Zero32]
                     ELSE first[nm]]
    IN  IF cnt < 0 /\ \E nm \in names : nm \notin DOMAIN cols
        THEN [ok |-> FALSE, err |-> Exc("ValueError", "negative_dimensions", -1),
              cols |-> <<>>]
        ELSE [ok |-> TRUE, err |-> NoError, cols |-> filled]

(***************************************************************************)
(* write_ply_binary_vertex_only                                            *)
(***************************************************************************)
WriterHeaderLinesCopiesFormat(vertex_count, schema) ==
    << <<"ply">>, <<"format", train_header.format, "1.0">>,
       <<"element", "vertex", FormatInt(vertex_count)>> >>
    \o [k \in 1..Len(schema) |-> <<"property", schema[k][1], schema[k][2]>>]
    \o << <<"end_header">> >>

\* lines 191-198: the regenerated header
WriterHeaderLines(vertex_count, schema) ==
    << <<"ply">>, <<"format", "binary_little_endian", "1.0">>,
       <<"element", "vertex", FormatInt(vertex_count)>> >>
    \o [k \in 1..Len(schema) |-> <<"property", schema[k][1], schema[k][2]>>]
    \o << <<"end_header">> >>

RECURSIVE FirstRowCountError(_, _, _, _)
FirstRowCountError(vertex_count, schema, columns, k) ==
    IF k > Len(schema) THEN NoError
    ELSE IF Len(columns[schema[k][2]]) # vertex_count
    THEN Exc("ValueError", "row_count", -1)
    ELSE FirstRowCountError(vertex_count, schema, columns, k + 1)

SanityCheckMissingFirst(vertex_count, schema, columns, k) ==
    IF \E j \in k..Len(schema) : schema[j][2] \notin DOMAIN columns
    THEN Exc("KeyError", "missing_column", -1)
    ELSE FirstRowCountError(vertex_count, schema, columns, k)

\* lines 205-211: the first failing entry of the sanity check, in schema order
RECURSIVE SanityCheck(_, _, _, _)
SanityCheck(vertex_count, schema, columns, k) ==
    IF k > Len(schema) THEN NoError
    ELSE IF schema[k][2] \notin DOMAIN columns
    THEN Exc("KeyError", "missing_column", -1)
    ELSE IF Len(columns[schema[k][2]]) # vertex_count
    THEN Exc("ValueError", "row_count", -1)
    ELSE SanityCheck(vertex_count, schema, columns, k + 1)

\* lines 201-211: everything that can raise before the file is opened
WriterPrecheck(vertex_count, schema, columns) ==
    IF ~struct_for_vertex(schema, "<").ok
    THEN Exc("ValueError", "unsupported_type", -1)
    ELSE SanityCheck(vertex_count, schema, columns, 1)

\* lines 216-217: st.pack(*row) for record i (0-based)
PackRow(schema, columns, i) ==
    LET st == struct_for_vertex(schema, "<")
        fields == [k \in 1..Len(schema) |->
                      PackField(st.chars[k], st.endian,
                                columns[schema[k][2]][i + 1])]
    IN  IF \E k \in 1..Len(schema) : ~fields[k].ok
        THEN [ok |-> FALSE, bytes |-> <<>>]
        ELSE [ok |-> TRUE,
              bytes |-> Flatten([k \in 1..Len(schema) |-> fields[k].bytes])]

(***************************************************************************)
(* Input files                                                             *)
(***************************************************************************)
File(header, body) == [header |-> header, body |-> body]

PropLines(props) ==
    [k \in 1..Len(props) |-> <<"property", props[k][1], props[k][2]>>]

\* header text: magic, format line, elements before vertex, the vertex
\* element with its property lines, elements after it, terminator
HeaderLines(fmt, pre, count, plines, post) ==
    << <<"ply">>, <<"format", fmt, "1.0">> >> \o pre
    \o << <<"element", "vertex", count>> >> \o plines \o post
    \o << <<"end_header">> >>

FaceElement ==
    << <<"element", "face", <<"1">>>>,
       <<"property", "list", "uchar", "int", "vertex_indices">>,
       <<"property", "uchar", "flag">> >>

ListLine == <<"property", "list", "uchar", "int", "vertex_indices">>

EdgeElement ==
    << <<"element", "edge", <<"2">>>>,
       <<"property", "int", "vertex1">>,
       <<"property", "int", "vertex2">> >>

\* big-endian byte images used to fill generated bodies, three per format
\* character: 1.0, -2.5, 0.1f / 0.1, -2.5, 1.0 / integers
SampleBytes(c, idx) ==
    CASE c = "f" -> << <<63, 128, 0, 0>>, <<192, 32, 0, 0>>,
                       <<61, 204, 204, 205>> >>[idx + 1]
      [] c = "d" -> << <<63, 185, 153, 153, 153, 153, 153, 154>>,
                       <<192, 4, 0, 0, 0, 0, 0, 0>>,
                       <<63, 240, 0, 0, 0, 0, 0, 0>> >>[idx + 1]
      [] c \in {"h", "H"} -> << <<255, 254>>, <<1, 0>>, <<127, 255>> >>[idx + 1]
      [] c \in {"b", "B"} -> << <<200>>, <<0>>, <<255>> >>[idx + 1]
      [] c \in {"i", "I"} -> << <<255, 255, 255, 255>>, <<1, 0, 0, 1>>,
                                <<0, 0, 0, 7>> >>[idx + 1]

\* the body of cnt records for props, written in the byte order of endian
BodyOf(props, endian, cnt, seed) ==
    LET st == struct_for_vertex(props, endian)
        field(i, k) ==
            LET b == SampleBytes(st.chars[k], (2 * i + k + seed) % 3)
            IN  IF endian = "<" THEN Reverse(b) ELSE b
        record(i) == Flatten([k \in 1..Len(props) |-> field(i, k)])
    IN  Flatten([i \in 1..cnt |-> record(i)])

DropLast(s, k) == IF Len(s) >= k THEN SubSeq(s, 1, Len(s) - k) ELSE <<>>

SourceProps ==
    { << <<"float", "x">>, <<"float", "y">> >>,
      << <<"double", "x">>, <<"short", "s">>, <<"uchar", "red">> >>,
      << <<"float", "x">>, <<"float", "x">> >>,
      << >> }

Formats == {"binary_little_endian", "binary_big_endian"}

\* well-formed binary sources: complete bodies, bodies cut short by one byte
\* or by more than one record, and a body with a trailing byte
BinarySources ==
    UNION { LET en == endian_for_format(fmt).endian
                size == struct_for_vertex(p, en).size
                full == BodyOf(p, en, c, 0)
            IN  { File(HeaderLines(fmt, <<>>, FormatInt(c), PropLines(p), <<>>), b) :
                    b \in { BodyOf(p, en, c, sd) : sd \in 0..MaxSeed }
                          \cup { DropLast(full, 1), DropLast(full, size + 1),
                                 full \o <<7>> } }
            : fmt \in Formats, c \in 0..MaxCount, p \in SourceProps }

XY == << <<"float", "x">>, <<"float", "y">> >>

XYBody == BodyOf(XY, "<", 1, 0)

\* sources that exercise the rejections and the element tracking
OtherSources ==
    { File(HeaderLines("ascii", <<>>, FormatInt(c), PropLines(p), <<>>),
           BodyOf(p, "<", c, 0)) : c \in 0..MaxCount, p \in {XY, <<>>} }
    \cup
    { File(HeaderLines("ascii", FaceElement, <<"1">>,
                       PropLines(XY) \o <<ListLine>>, <<>>), XYBody),
      File(HeaderLines("binary_little_endian", <<>>, <<"1">>,
                       << <<"property", "half", "x">> >>, <<>>), <<0, 60>>),
      File(HeaderLines("binary_little_endian", <<>>, <<"1">>,
                       PropLines(XY) \o <<ListLine>>, <<>>), XYBody),
      File(HeaderLines("binary_little_endian", <<>>, <<"-", "1">>,
                       PropLines(XY), <<>>), <<>>),
      File(HeaderLines("binary_little_endian", <<>>, <<"-", "1">>, <<>>, <<>>),
           <<>>),
      File(HeaderLines("binary_little_endian", <<>>, <<"x">>, PropLines(XY),
                       <<>>), XYBody),
      File(HeaderLines("binary_little_endian", FaceElement, <<"1">>,
                       PropLines(XY), FaceElement), XYBody),
      File(HeaderLines("binary_little_endian", EdgeElement, <<"1">>,
                       PropLines(XY), <<>>), XYBody),
      File(HeaderLines("binary_big_endian", <<>>, <<"0">>,
                       PropLines(XY), EdgeElement \o FaceElement), <<>>),
      File(HeaderLines("binary_little_endian", <<>>, <<"1">>,
                       << <<"property", "float", "x", "y">> >>, <<>>), XYBody),
      File(<< <<"ply">>, <<"format", "binary_little_endian", "1.0">>,
              <<"element", "vertex", <<"1">>>>, <<"property", "float", "x">> >>,
           <<>>),
      File(<< <<"plx">>, <<"format", "binary_little_endian", "1.0">>,
              <<"element", "vertex", <<"1">>>>, <<"end_header">> >>, <<>>),
      File(<< <<"ply">>, <<"format", "binary_little_endian">>,
              <<"element", "vertex", <<"1">>>>, <<"end_header">> >>, <<>>),
      File(<< <<"ply">>, <<"format", "binary_little_endian", "1.0">>,
              <<"comment", "empty">>, <<>>, <<"end_header">> >>, <<>>),
      File(<< <<"ply">>, <<"format", "binary_little_endian", "1.0">>,
              <<"element", "vertex">>, <<"end_header">> >>, <<>>),
      File(<<>>, <<>>) }

TeaserFiles == BinarySources \cup OtherSources

TargetProps ==
    { << <<"float", "x">>, <<"float", "nx">>, <<"float", "y">> >>,
      << <<"float", "y">>, <<"double", "x">> >>,
      << <<"uchar", "red">>, <<"float", "x">> >>,
      << <<"float", "x">>, <<"float", "x">> >>,
      << <<"float", "f_rest_0">>, <<"double", "z">> >>,
      << <<"half", "x">> >>,
      << >> }

XNY == << <<"float", "x">>, <<"float", "nx">>, <<"float", "y">> >>

\* reference files; their bodies are never read
TrainFiles ==
    { File(HeaderLines("binary_little_endian", <<>>, FormatInt(c),
                       PropLines(p), <<>>), <<>>) :
        c \in {0, MaxCount + 1}, p \in TargetProps }
    \cup
    { File(HeaderLines("binary_big_endian", <<>>, <<"1">>, PropLines(XNY), <<>>),
           <<>>),
      File(HeaderLines("ascii", FaceElement, <<"1">>, PropLines(XNY),
                       FaceElement), <<>>),
      File(HeaderLines("binary_little_endian", <<>>, <<"1">>,
                       PropLines(XNY) \o <<ListLine>>, <<>>), <<>>),
      File(<< <<"ply">>, <<"format", "binary_little_endian", "1.0">>,
              <<"end_header">> >>, <<>>) }

(***************************************************************************)
(* Initial states                                                          *)
(***************************************************************************)
NoHeader == HeaderError(NoError)

NoFile == [opened |-> FALSE, header |-> <<>>, body |-> <<>>]

\* no request has been made to the web application
WebIdle ==
    /\ sharp_tasks = <<>>
    /\ updates = <<>>
    /\ thread = <<>>
    /\ folders = {}
    /\ folder_files = <<>>
    /\ models_xml = <<>>
    /\ app_context = FALSE
    /\ config = {}

Init ==
    /\ WebIdle
    /\ teaser_file \in TeaserFiles
    /\ train_file \in TrainFiles
    /\ out_file = NoFile
    /\ pc = "parse_teaser"
    /\ stages = <<>>
    /\ err = NoError
    /\ teaser_header = NoHeader
    /\ train_header = NoHeader
    /\ target_schema = <<>>
    /\ teaser_cols = [set |-> FALSE, arrays |-> <<>>]
    /\ out_cols = <<>>
    /\ n = 0
    /\ row = 0
    /\ body_read = 0
    /\ summary = <<>>

(***************************************************************************)
(* convert(): one action per stage                                         *)
(***************************************************************************)
\* the exception e leaves convert() from the stage being run
Raise(e) ==
    /\ pc' = "failed"
    /\ err' = e

\* line 226: teaser_header = parse_ply_header(teaser_path)
ParseTeaser ==
    /\ UNCHANGED webvars
    /\ pc = "parse_teaser"
    /\ stages' = Append(stages, "parse_teaser")
    /\ LET h == parse_ply_header(teaser_file) IN
       IF h.ok
       THEN /\ teaser_header' = h
            /\ pc' = "parse_train"
            /\ err' = err
       ELSE /\ Raise(h.err)
            /\ teaser_header' = teaser_header
    /\ UNCHANGED <<teaser_file, train_file, out_file, train_header,
                   target_schema, teaser_cols, out_cols, n, row, body_read,
                   summary>>

\* line 227: train_header = parse_ply_header(train_path)
ParseTrain ==
    /\ UNCHANGED webvars
    /\ pc = "parse_train"
    /\ stages' = Append(stages, "parse_train")
    /\ LET h == parse_ply_header(train_file) IN
       IF h.ok
       THEN /\ train_header' = h
            /\ pc' = "build_schema"
            /\ err' = err
       ELSE /\ Raise(h.err)
            /\ train_header' = train_header
    /\ UNCHANGED <<teaser_file, train_file, out_file, teaser_header,
                   target_schema, teaser_cols, out_cols, n, row, body_read,
                   summary>>

\* line 229: target_schema = build_target_schema_from_train_header(...)
BuildSchema ==
    /\ UNCHANGED webvars
    /\ pc = "build_schema"
    /\ stages' = Append(stages, "build_schema")
    /\ target_schema' = build_target_schema_from_train_header(train_header)
    /\ pc' = "read_teaser"
    /\ UNCHANGED <<teaser_file, train_file, out_file, err, teaser_header,
                   train_header, teaser_cols, out_cols, n, row, body_read,
                   summary>>

\* line 232: teaser_cols = read_vertex_table_binary(teaser_path, teaser_header)
ReadTeaser ==
    /\ UNCHANGED webvars
    /\ pc = "read_teaser"
    /\ stages' = Append(stages, "read_teaser")
    /\ LET r == read_vertex_table_binary(teaser_file, teaser_header) IN
       /\ body_read' = r.read
       /\ IF r.ok
          THEN /\ teaser_cols' = [set |-> TRUE, arrays |-> r.arrays]
               /\ pc' = "reconcile"
               /\ err' = err
          ELSE /\ Raise(r.err)
               /\ teaser_cols' = teaser_cols
    /\ UNCHANGED <<teaser_file, train_file, out_file, teaser_header,
                   train_header, target_schema, out_cols, n, row, summary>>

\* the source of n on line 236
SourceCountFromReference == train_header.vertex_count

SourceCount == teaser_header.vertex_count

\* lines 235-252: n and out_cols
Reconcile ==
    /\ UNCHANGED webvars
    /\ pc = "reconcile"
    /\ stages' = Append(stages, "reconcile")
    /\ n' = SourceCount
    /\ LET r == ReconcileColumns(target_schema, teaser_cols.arrays,
                                 SourceCount) IN
       IF r.ok
       THEN /\ out_cols' = r.cols
            /\ pc' = "write_check"
            /\ err' = err
       ELSE /\ Raise(r.err)
            /\ out_cols' = out_cols
    /\ UNCHANGED <<teaser_file, train_file, out_file, teaser_header,
                   train_header, target_schema, teaser_cols, row, body_read,
                   summary>>

(***************************************************************************)
(* write_ply_binary_vertex_only(output_path, n, target_schema, out_cols)   *)
(***************************************************************************)
\* lines 190-211: header text, struct and sanity check
WriteCheck ==
    /\ UNCHANGED webvars
    /\ pc = "write_check"
    /\ stages' = Append(stages, "write_check")
    /\ LET e == WriterPrecheck(n, target_schema, out_cols) IN
       IF e = NoError
       THEN /\ pc' = "write_open"
            /\ err' = err
       ELSE Raise(e)
    /\ UNCHANGED <<teaser_file, train_file, out_file, teaser_header,
                   train_header, target_schema, teaser_cols, out_cols, n, row,
                   body_read, summary>>

\* lines 213-214: open the output for writing and write the header
WriteOpen ==
    /\ UNCHANGED webvars
    /\ pc = "write_open"
    /\ stages' = Append(stages, "write_open")
    /\ out_file' = [opened |-> TRUE,
                    header |-> WriterHeaderLines(n, target_schema),
                    body |-> <<>>]
    /\ row' = 0
    /\ pc' = "write_rows"
    /\ UNCHANGED <<teaser_file, train_file, err, teaser_header, train_header,
                   target_schema, teaser_cols, out_cols, n, body_read,
                   summary>>

\* lines 215-217: one iteration of the record loop, or its end and the
\* return of write_ply_binary_vertex_only and convert
WriteRow ==
    /\ UNCHANGED webvars
    /\ pc = "write_rows"
    /\ IF row < n
       THEN LET r == PackRow(target_schema, out_cols, row) IN
            IF r.ok
            THEN /\ out_file' = [out_file EXCEPT !.body = @ \o r.bytes]
                 /\ row' = row + 1
                 /\ pc' = pc
                 /\ err' = err
                 /\ stages' = stages
            ELSE /\ Raise(Exc("struct.error", "not_an_integer", row))
                 /\ stages' = Append(stages, "write_rows")
                 /\ UNCHANGED <<out_file, row>>
       ELSE /\ pc' = "done"
            /\ stages' = Append(stages, "write_rows")
            /\ UNCHANGED <<out_file, row, err>>
    /\ UNCHANGED <<teaser_file, train_file, teaser_header, train_header,
                   target_schema, teaser_cols, out_cols, n, body_read,
                   summary>>

(***************************************************************************)
(* main(): the three summaries printed after convert() returned            *)
(***************************************************************************)
\* _summarize_header(path)
summarize_header(file) ==
    LET h == parse_ply_header(file) IN
    [format |-> h.format, vertex |-> h.vertex_count,
     props |-> Len(h.vertex_properties),
     names |-> [k \in 1..Len(h.vertex_properties) |->
                  h.vertex_properties[k][2]]]

\* lines 292-294
Summarize ==
    /\ UNCHANGED webvars
    /\ pc = "done"
    /\ summary' = << summarize_header(train_file),
                     summarize_header(teaser_file),
                     summarize_header(out_file) >>
    /\ pc' = "exit"
    /\ UNCHANGED <<teaser_file, train_file, out_file, stages, err,
                   teaser_header, train_header, target_schema, teaser_cols,
                   out_cols, n, row, body_read>>

Next ==
    \/ ParseTeaser
    \/ ParseTrain
    \/ BuildSchema
    \/ ReadTeaser
    \/ Reconcile
    \/ WriteCheck
    \/ WriteOpen
    \/ WriteRow
    \/ Summarize

Spec == Init /\ [][Next]_vars

(***************************************************************************)
(* write_ply_binary_vertex_only called on its own, with arbitrary          *)
(* arguments: vertex_count is n, schema is target_schema, columns is       *)
(* out_cols                                                                *)
(***************************************************************************)
\* float32 samples: 1.0, -2.5, 0.1f, +inf, 0.0, a subnormal, -0.0
Samples32 ==
    << F32(0, 127, 0), F32(1, 128, 2097152), F32(0, 123, 5033165),
       F32(0, 255, 0), Zero32, F32(0, 0, 5), F32(1, 0, 0) >>

WriterNames == <<"x", "y", "nx", "red">>

WriterColumn(k, len, seed) ==
    [j \in 1..len |-> Samples32[((3 * k + 2 * j + seed) % Len(Samples32)) + 1]]

\* column sets: any subset of the names, column x of one length and the
\* other columns of another
WriterColumns ==
    { [nm \in {WriterNames[k] : k \in ks} |->
          LET k == CHOOSE k \in ks : WriterNames[k] = nm
          IN  WriterColumn(k, IF nm = "x" THEN lx ELSE lo, sd)] :
        ks \in SUBSET (1..Len(WriterNames)), lx \in 0..MaxCount,
        lo \in 0..MaxCount, sd \in 0..MaxSeed }

WriterSchemas ==
    { << <<"float", "x">>, <<"float", "y">> >>,
      << <<"double", "nx">>, <<"float32", "x">> >>,
      << <<"uchar", "red">>, <<"float", "x">> >>,
      << <<"float", "x">>, <<"float64", "x">> >>,
      << <<"half", "x">>, <<"float", "y">> >>,
      << >> }

InitWriter ==
    /\ WebIdle
    /\ teaser_file = File(<<>>, <<>>)
    /\ train_file = File(<<>>, <<>>)
    /\ out_file = NoFile
    /\ pc = "write_check"
    /\ stages = <<>>
    /\ err = NoError
    /\ teaser_header = NoHeader
    /\ train_header = NoHeader
    /\ target_schema \in WriterSchemas
    /\ teaser_cols = [set |-> FALSE, arrays |-> <<>>]
    /\ out_cols \in WriterColumns
    /\ n \in 0..MaxCount
    /\ row = 0
    /\ body_read = 0
    /\ summary = <<>>

NextWriter ==
    \/ WriteCheck
    \/ WriteOpen
    \/ WriteRow

SpecWriter == InitWriter /\ [][NextWriter]_vars

(***************************************************************************)
(* Properties                                                              *)
(***************************************************************************)
Ran(stage) == \E i \in 1..Len(stages) : stages[i] = stage

LastStage == IF stages = <<>> THEN "" ELSE stages[Len(stages)]

Returned == pc \in {"done", "exit"}

\* record size of the output for the current schema
OutStride == struct_for_vertex(target_schema, "<").size

\* the (type, name) pairs of the property lines of the written header
WrittenPairs ==
    [k \in 1..(Len(out_file.header) - 4) |->
        <<out_file.header[k + 3][2], out_file.header[k + 3][3]>>]

\* C1: once the reconciliation of convert has run it has not failed, the
\* output columns have exactly the names of the target schema, a name that
\* the source table has keeps the source column, and any other name has a
\* column of source-vertex-count entries that are all 0.0.
C1_ReconcileTotalByName ==
    Ran("reconcile") =>
        /\ ~(pc = "failed" /\ LastStage = "reconcile")
        /\ DOMAIN out_cols = PropNames(target_schema)
        /\ \A nm \in PropNames(target_schema) :
              IF nm \in DOMAIN teaser_cols.arrays
              THEN out_cols[nm] = teaser_cols.arrays[nm]
              ELSE /\ Len(out_cols[nm]) = teaser_header.vertex_count
                   /\ \A j \in 1..Len(out_cols[nm]) : out_cols[nm][j] = Zero32

C3_SchemaIsReferenceProperties ==
    /\ Ran("build_schema") => target_schema = train_header.vertex_properties
    /\ (Ran("build_schema") /\ out_file.opened) =>
           WrittenPairs = train_header.vertex_properties

\* C3 witness: a header was written for a reference that repeats a name
C3_Witness ==
    /\ Ran("build_schema")
    /\ out_file.opened
    /\ Len(train_header.vertex_properties) >
           Cardinality(PropNames(train_header.vertex_properties))

MissingAt(k) == target_schema[k][2] \notin DOMAIN out_cols

MismatchAt(k) == ~MissingAt(k) /\ Len(out_cols[target_schema[k][2]]) # n

BadEntries == {k \in 1..Len(target_schema) : MissingAt(k) \/ MismatchAt(k)}

FirstBadEntry == CHOOSE k \in BadEntries : \A j \in BadEntries : k <= j

\* C4 as stated: the writer fails with the missing-column error when some
\* schema name has no column, and with the row-count-mismatch error when a
\* present column has another length than vertex_count, before the output
\* file is opened.
C4_AsStated ==
    Ran("write_check") =>
        /\ (\E k \in 1..Len(target_schema) : MissingAt(k)) =>
              (pc = "failed" /\ err.what = "missing_column" /\ out_file = NoFile)
        /\ (\E k \in 1..Len(target_schema) : MismatchAt(k)) =>
              (pc = "failed" /\ err.what = "row_count" /\ out_file = NoFile)

\* C4 amended: when some schema name has no column or a present column has
\* another length than vertex_count, the writer fails before the output file
\* is opened or written; the error is the unsupported-type ValueError if a
\* schema type is outside the type table, otherwise the one of the first
\* schema entry, in schema order, that fails: missing-column (KeyError) if
\* its name has no column, row-count-mismatch (ValueError) if its column has
\* the wrong length.
C4_FirstFailingEntryDecides ==
    (Ran("write_check") /\ BadEntries # {}) =>
        /\ pc = "failed"
        /\ LastStage = "write_check"
        /\ out_file = NoFile
        /\ err = IF ~struct_for_vertex(target_schema, "<").ok
                 THEN Exc("ValueError", "unsupported_type", -1)
                 ELSE IF MissingAt(FirstBadEntry)
                      THEN Exc("KeyError", "missing_column", -1)
                      ELSE Exc("ValueError", "row_count", -1)

\* C4 witness: the writer raised the row-count error for an earlier entry
\* although a later schema name has no column
C4_Witness ==
    /\ pc = "failed"
    /\ err.what = "row_count"
    /\ \E k \in 1..Len(target_schema) : MissingAt(k)

\* C5: whenever convert has failed, the output path holds nothing written by
\* this call or a complete file: the whole header and vertex_count full
\* records.
C5_AllOrNothing ==
    pc = "failed" =>
        \/ out_file = NoFile
        \/ /\ out_file.header = WriterHeaderLines(n, target_schema)
           /\ Len(out_file.body) = n * OutStride

StageOrder ==
    <<"parse_teaser", "parse_train", "build_schema", "read_teaser",
      "reconcile", "write_check", "write_open", "write_rows">>

IsAsciiSource ==
    /\ Len(teaser_file.header) >= 2
    /\ teaser_file.header[2] = <<"format", "ascii", "1.0">>

\* the same file with a binary format line
AsBinary(file) ==
    [file EXCEPT !.header[2] = <<"format", "binary_little_endian", "1.0">>]

\* C6: the stages of convert run in the fixed order; a source declaring the
\* ascii format whose header is otherwise accepted passes header parsing,
\* never reaches reconciliation, and when the read stage runs it fails there
\* with the unsupported-format error, the reference header being parsed, no
\* body byte read and the output not opened; that error is raised nowhere
\* else.
C6_StageOrderAndAsciiRejection ==
    /\ Len(stages) <= Len(StageOrder)
    /\ stages = SubSeq(StageOrder, 1, Len(stages))
    /\ err.what = "unsupported_format" => LastStage = "read_teaser"
    /\ (/\ IsAsciiSource
        /\ Ran("parse_teaser")
        /\ parse_ply_header(AsBinary(teaser_file)).ok) =>
           /\ teaser_header.ok
           /\ teaser_header.format = "ascii"
           /\ ~Ran("reconcile")
           /\ Ran("read_teaser") =>
                 /\ pc = "failed"
                 /\ LastStage = "read_teaser"
                 /\ err = Exc("ValueError", "unsupported_format", -1)
                 /\ train_header.ok
                 /\ body_read = 0
                 /\ out_file = NoFile

\* C6 witness: an ascii source was rejected by the read stage
C6_Witness ==
    /\ IsAsciiSource
    /\ pc = "failed"
    /\ err.what = "unsupported_format"
    /\ teaser_header.vertex_count > 0

IsElementLine(l) == Len(l) >= 1 /\ l[1] = "element"

IsListLine(l) == Len(l) = 5 /\ l[1] = "property" /\ l[2] = "list"

IsTerminator(l) == Len(l) = 1 /\ l[1] = "end_header"

\* line k of the header is a list property line read while the vertex
\* element is tracked
VertexListLineAt(lines, k) ==
    /\ IsListLine(lines[k])
    /\ \A i \in 3..(k - 1) : ~IsTerminator(lines[i])
    /\ \E j \in 3..(k - 1) :
          /\ Len(lines[j]) = 3 /\ lines[j][1] = "element"
          /\ lines[j][2] = "vertex"
          /\ \A i \in (j + 1)..(k - 1) : ~IsElementLine(lines[i])

HasVertexListLine(file) ==
    \E k \in 3..Len(file.header) : VertexListLineAt(file.header, k)

\* C7: a header with a list property line under the tracked vertex element
\* makes parse_ply_header fail, in the parsing stage of that file, and no
\* body byte has been read before the read stage.
C7_VertexListPropertyRejected ==
    /\ ~Ran("read_teaser") => body_read = 0
    /\ (Ran("parse_teaser") /\ HasVertexListLine(teaser_file)) =>
           /\ pc = "failed" /\ LastStage = "parse_teaser"
           /\ ~teaser_header.ok /\ body_read = 0
    /\ (Ran("parse_train") /\ HasVertexListLine(train_file)) =>
           /\ pc = "failed" /\ LastStage = "parse_train"
           /\ ~train_header.ok /\ body_read = 0

\* C7 witness: the source header was rejected for its list property
C7_Witness ==
    /\ HasVertexListLine(teaser_file)
    /\ pc = "failed"
    /\ err = Exc("ValueError", "list_property", -1)

SourceStruct ==
    struct_for_vertex(teaser_header.vertex_properties,
                      endian_for_format(teaser_header.format).endian)

\* the source is binary with known types and its body holds fewer than
\* vertex_count full records
SourceBodyShort ==
    /\ endian_for_format(teaser_header.format).ok
    /\ SourceStruct.ok
    /\ SourceStruct.size > 0
    /\ Len(teaser_file.body) \div SourceStruct.size
          < teaser_header.vertex_count

\* C8: a binary source body with fewer than vertex_count full records makes
\* the reader fail with the end-of-file error naming the index of the first
\* record not read in full, and no table is returned; a returned table has
\* every entry of every column assigned.
C8_TruncatedBodyRejected ==
    /\ (Ran("read_teaser") /\ SourceBodyShort) =>
           /\ pc = "failed"
           /\ LastStage = "read_teaser"
           /\ err = Exc("EOFError", "eof_body",
                        Len(teaser_file.body) \div SourceStruct.size)
           /\ ~teaser_cols.set
    /\ teaser_cols.set =>
           \A nm \in DOMAIN teaser_cols.arrays :
              /\ Len(teaser_cols.arrays[nm]) = teaser_header.vertex_count
              /\ \A j \in 1..Len(teaser_cols.arrays[nm]) :
                    teaser_cols.arrays[nm][j] # Uninit

\* C8 witness: the reader stopped at a record after the first one
C8_Witness ==
    /\ pc = "failed"
    /\ err.what = "eof_body"
    /\ err.at >= 1
    /\ body_read > err.at * SourceStruct.size

\* C9: every written file declares binary_little_endian and lists exactly
\* one element, vertex, with vertex_count records, followed by one property
\* line per schema pair in schema order.
C9_HeaderIsLittleEndianVertexOnly ==
    out_file.opened =>
        /\ Len(out_file.header) = Len(target_schema) + 4
        /\ out_file.header[1] = <<"ply">>
        /\ out_file.header[2] = <<"format", "binary_little_endian", "1.0">>
        /\ out_file.header[3] = <<"element", "vertex", FormatInt(n)>>
        /\ \A k \in 1..Len(target_schema) :
              out_file.header[k + 3] =
                 <<"property", target_schema[k][1], target_schema[k][2]>>
        /\ out_file.header[Len(out_file.header)] = <<"end_header">>
        /\ Cardinality({k \in 1..Len(out_file.header) :
                           IsElementLine(out_file.header[k])}) = 1

\* C9 witness: a file was written from a big-endian source and a big-endian
\* reference
C9_Witness ==
    /\ out_file.opened
    /\ teaser_header.format = "binary_big_endian"
    /\ train_header.format = "binary_big_endian"
    /\ Len(out_file.body) > 0

\* C10: after a successful write, parsing the written header and reading
\* the written vertex table give the vertex_count, the (type, name) pairs in
\* order, and for each name the column that was written.
C10_RoundTrip ==
    (pc = "done") =>
        LET h == parse_ply_header(out_file)
            r == read_vertex_table_binary(out_file, h)
        IN  /\ h.ok
            /\ h.vertex_count = n
            /\ h.vertex_properties = target_schema
            /\ r.ok
            /\ DOMAIN r.arrays = PropNames(target_schema)
            /\ \A nm \in PropNames(target_schema) :
                  r.arrays[nm] = out_cols[nm]

\* C10 witness: a file with several records, a double and a float32 property
\* was written
C10_Witness ==
    /\ pc = "done"
    /\ n >= 2
    /\ \E k \in 1..Len(target_schema) : target_schema[k][1] = "double"
    /\ \E k \in 1..Len(target_schema) : target_schema[k][1] = "float32"

\* some name is declared by two property lines of the vertex element
HasDuplicateNames(props) ==
    \E j, k \in 1..Len(props) : j < k /\ props[j][2] = props[k][2]

\* C11: a source whose vertex element declares two properties of the same
\* name makes the conversion fail: no run over such a source returns from
\* convert().
C11_DuplicateSourceNamesRejected ==
    (teaser_header.ok /\ HasDuplicateNames(teaser_header.vertex_properties))
        => ~Returned

\* some property has a type name outside the type table
UnknownType(props) ==
    \E k \in 1..Len(props) : props[k][1] \notin DOMAIN PLY_TYPE_TO_STRUCT

UnknownInSource ==
    teaser_header.ok /\ UnknownType(teaser_header.vertex_properties)

UnknownInReference ==
    train_header.ok /\ UnknownType(train_header.vertex_properties)

\* the reader can return the source table: binary format, known types, a
\* count that is not negative and a body holding that many records
SourceReadable ==
    /\ teaser_header.ok
    /\ endian_for_format(teaser_header.format).ok
    /\ SourceStruct.ok
    /\ teaser_header.vertex_count >= 0
    /\ Len(teaser_file.body) >= teaser_header.vertex_count * SourceStruct.size

\* C12 as stated: a finished run over a source or a reference with a type
\* name outside the table has failed with the unsupported-scalar-type error
\* and has opened no output.
C12_AsStated ==
    (pc \in {"failed", "done", "exit"}
     /\ (UnknownInSource \/ UnknownInReference)) =>
        /\ pc = "failed"
        /\ err = Exc("ValueError", "unsupported_type", -1)
        /\ ~out_file.opened

\* C12: with a type name outside the table in the source's vertex element
\* or in the reference schema the conversion never returns and never opens
\* the output; the failure is the unsupported-scalar-type error, raised by
\* the reader for a binary source that has the unknown type, and raised by
\* the writer's struct when only the reference has it and the source table
\* could be read; that error is raised in no other case.
C12_UnsupportedTypeRejected ==
    /\ (UnknownInSource \/ UnknownInReference) =>
           ~Returned /\ ~out_file.opened
    /\ (pc = "failed" /\ UnknownInSource /\ train_header.ok
        /\ endian_for_format(teaser_header.format).ok) =>
           /\ err = Exc("ValueError", "unsupported_type", -1)
           /\ LastStage = "read_teaser"
    /\ (pc = "failed" /\ UnknownInReference /\ SourceReadable) =>
           /\ err = Exc("ValueError", "unsupported_type", -1)
           /\ LastStage = "write_check"
    /\ err.what = "unsupported_type" =>
           /\ UnknownInSource \/ UnknownInReference
           /\ LastStage \in {"read_teaser", "write_check"}

\* C12 witness: the writer rejected a reference schema with an unknown type
\* after a source with records was read and reconciled
C12_Witness ==
    /\ pc = "failed"
    /\ UnknownInReference
    /\ SourceReadable
    /\ teaser_header.vertex_count >= 1
    /\ LastStage = "write_check"
    /\ err = Exc("ValueError", "unsupported_type", -1)
    /\ ~out_file.opened

\* the header has exactly one element line naming vertex
SingleVertexElement(lines) ==
    Cardinality({k \in 1..Len(lines) :
                    IsElementLine(lines[k]) /\ Len(lines[k]) = 3
                    /\ lines[k][2] = "vertex"}) = 1

VertexLineIndex(lines) ==
    CHOOSE k \in 1..Len(lines) :
        IsElementLine(lines[k]) /\ Len(lines[k]) = 3 /\ lines[k][2] = "vertex"

\* the (type, name) pairs of the property lines that stand between the
\* vertex element line and the next element line or the terminator
VertexSectionProps(lines) ==
    LET v == VertexLineIndex(lines)
        ends == {j \in (v + 1)..Len(lines) :
                    IsElementLine(lines[j]) \/ IsTerminator(lines[j])}
        e == CHOOSE j \in ends : \A i \in ends : j <= i
        IsProperty(l) == Len(l) >= 1 /\ l[1] = "property"
        ps == SelectSeq(SubSeq(lines, v + 1, e - 1), IsProperty)
    IN  [k \in 1..Len(ps) |-> <<ps[k][2], ps[k][3]>>]

\* a property line of an element other than vertex
OtherElementProperties(lines) ==
    {k \in 1..Len(lines) :
        /\ Len(lines[k]) >= 1 /\ lines[k][1] = "property"
        /\ \E j \in 1..(k - 1) :
              /\ IsElementLine(lines[j]) /\ Len(lines[j]) = 3
              /\ lines[j][2] # "vertex"
              /\ \A i \in (j + 1)..(k - 1) : ~IsElementLine(lines[i])}

\* C13: for a header with a single vertex element, the vertex_properties of
\* the returned header are exactly the property lines of the vertex element,
\* in declaration order, whatever elements stand before or after it; a list
\* property is rejected only when it stands under the vertex element.
C13_OnlyVertexPropertiesTracked ==
    /\ (teaser_header.ok /\ SingleVertexElement(teaser_file.header)) =>
           teaser_header.vertex_properties
              = VertexSectionProps(teaser_file.header)
    /\ (train_header.ok /\ SingleVertexElement(train_file.header)) =>
           train_header.vertex_properties
              = VertexSectionProps(train_file.header)
    /\ (err.what = "list_property" /\ LastStage = "parse_teaser") =>
           HasVertexListLine(teaser_file)
    /\ (err.what = "list_property" /\ LastStage = "parse_train") =>
           HasVertexListLine(train_file)

\* C13 witness: a source with scalar and list properties of other elements
\* before its vertex element was parsed, and so was a reference with other
\* elements on both sides
C13_Witness ==
    /\ teaser_header.ok /\ train_header.ok
    /\ teaser_header.vertex_properties # <<>>
    /\ train_header.vertex_properties # <<>>
    /\ \E k \in OtherElementProperties(teaser_file.header) :
          k < VertexLineIndex(teaser_file.header)
    /\ \E k \in OtherElementProperties(train_file.header) :
          /\ k > VertexLineIndex(train_file.header)
          /\ IsListLine(train_file.header[k])

\* C14: every header that parse_ply_header returned, for the source or for
\* the reference, has a vertex_count that is not negative.
C14_VertexCountNonNegative ==
    /\ teaser_header.ok => teaser_header.vertex_count >= 0
    /\ train_header.ok => train_header.vertex_count >= 0

(***************************************************************************)
(* The web application: routes/sharp.py (upload_image, the background      *)
(* thread _run_sharp_task, the task table), utils/storage.py (save_image,  *)
(* ensure_user, add_model) and trainer_image.py, for one logged-in user.   *)
(*                                                                         *)
(* Representation.  A file name is [stem, ext, converts]: the characters   *)
(* before the last dot, the extension, and the number of "_convert"        *)
(* suffixes appended to the stem.  A folder of the user's directory is     *)
(* [base, suffix]: suffix 0 is the bare name, suffix i > 0 is "base_i".    *)
(* time.time() is the number of update_task_status calls made so far.      *)
(***************************************************************************)
\* the task ids uuid4 hands out, one per upload request
TaskIds == {"t1", "t2"}

\* config.py line 24
ALLOWED_IMAGE_EXTENSIONS == {"png", "jpg", "jpeg", "jfif"}

\* the attributes class Config of config.py defines, of those the trainer
\* reads, and a Config that also defines the one trainer_image.py line 20
\* reads
RepositoryConfig == {"GAUSSIAN_REPO_PATH", "CONDA_BASE", "GAUSSIAN_ENV"}

CompleteConfig == RepositoryConfig \cup {"GAUSSIAN_TRAIN_SCRIPT"}

FileName(stem, ext, converts) ==
    [stem |-> stem, ext |-> ext, converts |-> converts]

NoName == FileName(<<>>, "", 0)

Folder(base, suffix) == [base |-> base, suffix |-> suffix]

NoFolder == Folder(<<>>, 0)

\* the file names of the uploads: "a.jpg", "a b.jpg", "a_b.png", "a.gif"
UploadNames ==
    { FileName(<<"a">>, "jpg", 0),
      FileName(<<"a", " ", "b">>, "jpg", 0),
      FileName(<<"a", "_", "b">>, "png", 0),
      FileName(<<"a">>, "gif", 0) }

\* allowed_file(filename)
allowed_file(filename) == filename.ext \in ALLOWED_IMAGE_EXTENSIONS

AsciiNameChars == {"a", "b", "g", "j", "n", "p", "_", "-"}

\* the characters of an extension
ExtensionChars(ext) ==
    CASE ext = "jpg" -> <<"j", "p", "g">>
      [] ext = "png" -> <<"p", "n", "g">>
      [] OTHER       -> <<>>

\* strip("._") on a stem
RECURSIVE StripUnderscores(_)
StripUnderscores(chars) ==
    IF chars = <<>> THEN <<>>
    ELSE IF Head(chars) = "_" THEN StripUnderscores(Tail(chars))
    ELSE IF chars[Len(chars)] = "_"
         THEN StripUnderscores(SubSeq(chars, 1, Len(chars) - 1))
         ELSE chars

\* werkzeug's secure_filename on a stem: white space becomes "_",
\* characters outside the ASCII name characters are dropped, leading and
\* trailing "_" are stripped
SecureStem(chars) ==
    LET joined == [k \in 1..Len(chars) |->
                      IF chars[k] = " " THEN "_" ELSE chars[k]]
        IsNameChar(c) == c \in AsciiNameChars
    IN  StripUnderscores(SelectSeq(joined, IsNameChar))

\* secure_filename(file_storage.filename): a name whose stem is emptied
\* keeps its extension as the whole name
secure_filename(filename) ==
    IF SecureStem(filename.stem) = <<>>
    THEN FileName(ExtensionChars(filename.ext), "", 0)
    ELSE FileName(SecureStem(filename.stem), filename.ext, 0)

\* storage.py lines 130-133: folder_name for an uploaded file
FolderNameOf(filename) == SecureStem(secure_filename(filename).stem)

\* a relative path folder/file, and None
RelPath(folder, file) == [set |-> TRUE, folder |-> folder, file |-> file]

None == [set |-> FALSE, folder |-> NoFolder, file |-> NoName]

\* a progress value: the number the callers mean, or the list of log lines
\* that line 139 passes in its place
Number(v) == [number |-> TRUE, value |-> v, lines |-> <<>>]

LogLines(lines) == [number |-> FALSE, value |-> 0, lines |-> lines]

\* time.time()
RECURSIVE CallsMade(_, _)
CallsMade(upd, ids) ==
    IF ids = {} THEN 0
    ELSE LET t == CHOOSE x \in ids : TRUE
         IN  Len(upd[t]) + CallsMade(upd, ids \ {t})

Now == CallsMade(updates, DOMAIN updates)

\* update_task_status(task_id, status, message, progress, result)
update_task_status(tasks, task_id, status, message, progress, result) ==
    IF task_id \notin DOMAIN tasks
    THEN [x \in DOMAIN tasks \cup {task_id} |->
             IF x = task_id
             THEN [status |-> status, message |-> message,
                   progress |-> progress, result |-> result,
                   created_at |-> Now, updated_at |-> Now]
             ELSE tasks[x]]
    ELSE [tasks EXCEPT ![task_id] =
             [status |-> status, message |-> message,
              progress |-> progress, result |-> result,
              created_at |-> @.created_at, updated_at |-> Now]]

\* the record kept in updates for one call
Update(status, progress, result) ==
    [status |-> status, progress |-> progress, result |-> result]

\* no call of convert() is under way
ConvIdle ==
    /\ teaser_file = File(<<>>, <<>>)
    /\ train_file = File(<<>>, <<>>)
    /\ out_file = NoFile
    /\ pc = "idle"
    /\ stages = <<>>
    /\ err = NoError
    /\ teaser_header = NoHeader
    /\ train_header = NoHeader
    /\ target_schema = <<>>
    /\ teaser_cols = [set |-> FALSE, arrays |-> <<>>]
    /\ out_cols = <<>>
    /\ n = 0
    /\ row = 0
    /\ body_read = 0
    /\ summary = <<>>

NoTrainingResult == [success |-> FALSE, log |-> <<>>]

\* an upload request that has reached upload_image
NewRequest(filename) ==
    [pc |-> "request", filename |-> filename, folder |-> NoFolder, i |-> 0,
     existed |-> FALSE, training_result |-> NoTrainingResult,
     result_file |-> NoName, tree |-> <<>>, conversion |-> "none",
     registered |-> None]

\* a user without directory sends one upload per task id; the requests are
\* served by concurrent threads of the server
InitWeb ==
    /\ ConvIdle
    /\ sharp_tasks = <<>>
    /\ updates = [t \in TaskIds |-> <<>>]
    /\ thread \in [TaskIds -> {NewRequest(nm) : nm \in UploadNames}]
    /\ folders = {}
    /\ folder_files = <<>>
    /\ models_xml = [exists |-> FALSE, partial |-> FALSE, paths |-> <<>>,
                     overwritten |-> FALSE]
    /\ app_context \in BOOLEAN
    /\ config \in {RepositoryConfig, CompleteConfig}

\* a call update_task_status(t, status, message, progress, result)
SetStatus(t, status, message, progress, result) ==
    /\ sharp_tasks' = update_task_status(sharp_tasks, t, status, message,
                                         progress, result)
    /\ updates' = [updates EXCEPT
                      ![t] = Append(@, Update(status, progress, result))]

\* sharp.py lines 86-102: the checks of the request, the new task
UploadImage(t) ==
    /\ thread[t].pc = "request"
    /\ IF allowed_file(thread[t].filename)
       THEN /\ SetStatus(t, "uploading", "uploading", Number(0), None)
            /\ thread' = [thread EXCEPT ![t].pc = "ensure_user"]
       ELSE /\ thread' = [thread EXCEPT ![t].pc = "rejected"]
            /\ UNCHANGED <<sharp_tasks, updates>>
    /\ UNCHANGED <<folders, folder_files, models_xml, app_context, config>>
    /\ UNCHANGED convvars

\* storage.py lines 129-135: the first candidate folder of save_image
FirstCandidate(rec) ==
    [rec EXCEPT !.pc = "pick_folder",
                !.folder = Folder(FolderNameOf(rec.filename), 0),
                !.i = 1]

\* storage.py lines 30-34, called on line 129: does the index exist
EnsureUser(t) ==
    /\ thread[t].pc = "ensure_user"
    /\ thread' = [thread EXCEPT
                     ![t] = IF models_xml.exists THEN FirstCandidate(@)
                            ELSE [@ EXCEPT !.pc = "create_index"]]
    /\ UNCHANGED <<sharp_tasks, updates, folders, folder_files, models_xml,
                   app_context, config>>
    /\ UNCHANGED convvars

\* storage.py lines 35-37: write an index without entries; overwritten
\* records that this write replaced an index made since the test of line 34
CreateIndex(t) ==
    /\ thread[t].pc = "create_index"
    /\ models_xml' = [exists |-> TRUE, partial |-> FALSE, paths |-> <<>>,
                      overwritten |-> models_xml.overwritten
                                         \/ models_xml.exists]
    /\ thread' = [thread EXCEPT ![t] = FirstCandidate(@)]
    /\ UNCHANGED <<sharp_tasks, updates, folders, folder_files, app_context,
                   config>>
    /\ UNCHANGED convvars

\* storage.py lines 136-138: one test of the while loop
PickFolder(t) ==
    /\ thread[t].pc = "pick_folder"
    /\ thread' = [thread EXCEPT
                     ![t] = IF @.folder \in folders
                            THEN [@ EXCEPT
                                     !.folder = Folder(@.base, thread[t].i),
                                     !.i = @ + 1]
                            ELSE [@ EXCEPT !.pc = "make_folder"]]
    /\ UNCHANGED <<sharp_tasks, updates, folders, folder_files, models_xml,
                   app_context, config>>
    /\ UNCHANGED convvars

\* the files of a folder, none for a folder that does not exist
FilesIn(folder) ==
    IF folder \in DOMAIN folder_files THEN folder_files[folder] ELSE {}

\* folder_files after names were written into folder
WithFiles(folder, names) ==
    [f \in DOMAIN folder_files \cup {folder} |->
        IF f = folder THEN FilesIn(folder) \cup names ELSE folder_files[f]]

\* storage.py lines 139-143 and sharp.py lines 109-115: the folder is made
\* (exist_ok), the image saved under its secured name, the task is UPLOADED
\* and the background thread starts
SaveImage(t) ==
    /\ thread[t].pc = "make_folder"
    /\ folders' = folders \cup {thread[t].folder}
    /\ folder_files' = WithFiles(thread[t].folder,
                                 {secure_filename(thread[t].filename)})
    /\ SetStatus(t, "uploaded", "uploaded", Number(10), None)
    /\ thread' = [thread EXCEPT
                     ![t].pc = "processing",
                     ![t].existed = thread[t].folder \in folders]
    /\ UNCHANGED <<models_xml, app_context, config>>
    /\ UNCHANGED convvars

(***************************************************************************)
(* _run_sharp_task(task_id, data_dir, image_path, username, rel_folder)    *)
(***************************************************************************)
\* sharp.py lines 126-134: the task is PROCESSING; ImageModelTrainer() reads
\* four attributes of Config (trainer_image.py lines 19-22) and raises
\* AttributeError, which nothing catches, when one is not defined
Processing(t) ==
    /\ thread[t].pc = "processing"
    /\ SetStatus(t, "processing", "processing", Number(10), None)
    /\ thread' = [thread EXCEPT
                     ![t].pc = IF CompleteConfig \subseteq config
                               THEN "train" ELSE "died"]
    /\ UNCHANGED <<folders, folder_files, models_xml, app_context, config>>
    /\ UNCHANGED convvars

\* what trainer.train() returns: the external process ended with a code
\* other than 0 (or could not be started) or with 0; log is the tail of its
\* output
TrainingResults ==
    { [success |-> FALSE, log |-> <<>>],
      [success |-> FALSE, log |-> <<"line">>],
      [success |-> TRUE, log |-> <<"line">>] }

\* the model file the reconstruction writes for an image
ModelFileOf(filename) == FileName(secure_filename(filename).stem, "ply", 0)

\* sharp.py lines 137-143: trainer.train() runs the external process to its
\* end; a failed run makes the task FAILED, a successful one TRAINING, and
\* the process may or may not have left a model file in the folder
Train(t) ==
    /\ thread[t].pc = "train"
    /\ \E res \in TrainingResults, produced \in BOOLEAN :
          IF ~res.success
          THEN /\ SetStatus(t, "failed", "train_failed",
                            LogLines(res.log), None)
               /\ thread' = [thread EXCEPT ![t].pc = "returned",
                                           ![t].training_result = res]
               /\ UNCHANGED folder_files
          ELSE /\ SetStatus(t, "training", "searching", Number(80), None)
               /\ thread' = [thread EXCEPT ![t].pc = "find_result",
                                           ![t].training_result = res]
               /\ folder_files' =
                     IF produced
                     THEN WithFiles(thread[t].folder,
                                    {ModelFileOf(thread[t].filename)})
                     ELSE folder_files
    /\ UNCHANGED <<folders, models_xml, app_context, config>>
    /\ UNCHANGED convvars

\* sharp.py lines 146-155 and 186: the first name os.listdir yields, in an
\* order it does not promise, that ends with .ply or .splat; without one
\* the task is COMPLETED with the folder's name as result
FindResult(t) ==
    /\ thread[t].pc = "find_result"
    /\ LET found == {f \in FilesIn(thread[t].folder) :
                        f.ext \in {"ply", "splat"}}
       IN  IF found = {}
           THEN /\ SetStatus(t, "completed", "done_no_model", Number(100),
                             RelPath(thread[t].folder, NoName))
                /\ thread' = [thread EXCEPT ![t].pc = "returned"]
           ELSE /\ \E f \in found :
                      thread' = [thread EXCEPT ![t].pc = "convert",
                                               ![t].result_file = f]
                /\ UNCHANGED <<sharp_tasks, updates>>
    /\ UNCHANGED <<folders, folder_files, models_xml, app_context, config>>
    /\ UNCHANGED convvars

\* sharp.py lines 160-161: base + "_convert" + ext
ConvertedName(file) == [file EXCEPT !.converts = @ + 1]

\* sharp.py line 171
RelConverted(rec) == RelPath(rec.folder, ConvertedName(rec.result_file))

\* sharp.py lines 157-169: ply_convert on the result file.  convert() ends
\* as in the specification above: it returns with the output written, it
\* raises before the output is opened, or it raises after the header was
\* written; it raises FileNotFoundError when the result file is gone.
Convert(t) ==
    /\ thread[t].pc = "convert"
    /\ \E outcome \in {"returned", "raised", "raised_after_open"} :
          /\ thread[t].result_file \notin FilesIn(thread[t].folder)
                => outcome = "raised"
          /\ thread' = [thread EXCEPT
                           ![t].pc = IF outcome = "returned"
                                     THEN "add_model"
                                     ELSE "conversion_failed",
                           ![t].conversion =
                               IF outcome = "returned" THEN "returned"
                               ELSE "raised"]
          /\ folder_files' =
                IF outcome = "raised" THEN folder_files
                ELSE WithFiles(thread[t].folder,
                               {ConvertedName(thread[t].result_file)})
    /\ UNCHANGED <<sharp_tasks, updates, folders, models_xml, app_context,
                   config>>
    /\ UNCHANGED convvars

(***************************************************************************)
(* StorageManager.add_model(username, rel_converted), called on line 173.  *)
(* tree.write() opens the index for writing, which empties the file, and   *)
(* then writes the document; of two overlapping writes the one that        *)
(* finishes last decides the content.                                      *)
(***************************************************************************)
\* number of entries of an index with the given path
Occurrences(paths, path) ==
    Cardinality({k \in 1..Len(paths) : paths[k] = path})

\* storage.py lines 62-69: ensure_user finds the index that save_image made,
\* ET.parse reads it and the path is looked up.  A file caught between the
\* opening and the writing of another tree.write() has no root element:
\* ET.parse raises ParseError, which line 174 catches and logs.
AddModelParse(t) ==
    /\ thread[t].pc = "add_model"
    /\ LET relpath == RelConverted(thread[t]) IN
       thread' = [thread EXCEPT
          ![t] = IF models_xml.partial
                 THEN [@ EXCEPT !.pc = IF app_context THEN "complete"
                                       ELSE "conversion_failed"]
                 ELSE IF Occurrences(models_xml.paths, relpath) > 0
                 THEN [@ EXCEPT !.pc = "complete", !.registered = relpath]
                 ELSE [@ EXCEPT !.pc = "open_index",
                                !.tree = models_xml.paths]]
    /\ UNCHANGED <<sharp_tasks, updates, folders, folder_files, models_xml,
                   app_context, config>>
    /\ UNCHANGED convvars

\* storage.py lines 70-74: the new element is added to the parsed tree and
\* tree.write() opens the index
AddModelOpen(t) ==
    /\ thread[t].pc = "open_index"
    /\ thread' = [thread EXCEPT
                     ![t].pc = "write_index",
                     ![t].tree = Append(@, RelConverted(thread[t]))]
    /\ models_xml' = [models_xml EXCEPT !.exists = TRUE, !.partial = TRUE,
                                        !.paths = <<>>]
    /\ UNCHANGED <<sharp_tasks, updates, folders, folder_files, app_context,
                   config>>
    /\ UNCHANGED convvars

\* storage.py line 74: tree.write() writes the document and returns
AddModelWrite(t) ==
    /\ thread[t].pc = "write_index"
    /\ models_xml' = [models_xml EXCEPT !.exists = TRUE, !.partial = FALSE,
                                        !.paths = thread[t].tree]
    /\ thread' = [thread EXCEPT ![t].pc = "complete",
                                ![t].registered = RelConverted(thread[t])]
    /\ UNCHANGED <<sharp_tasks, updates, folders, folder_files, app_context,
                   config>>
    /\ UNCHANGED convvars

\* sharp.py lines 177-178: the task is COMPLETED with the converted file as
\* result, then the result file is removed; os.remove raises
\* FileNotFoundError, into the handler of line 179, when the file is gone
Complete(t) ==
    /\ thread[t].pc = "complete"
    /\ SetStatus(t, "completed", "done_converted", Number(100),
                 RelConverted(thread[t]))
    /\ IF thread[t].result_file \in FilesIn(thread[t].folder)
       THEN /\ folder_files' =
                  [folder_files EXCEPT
                      ![thread[t].folder] = @ \ {thread[t].result_file}]
            /\ thread' = [thread EXCEPT ![t].pc = "returned"]
       ELSE /\ thread' = [thread EXCEPT ![t].pc = "conversion_failed"]
            /\ UNCHANGED folder_files
    /\ UNCHANGED <<folders, models_xml, app_context, config>>
    /\ UNCHANGED convvars

\* sharp.py lines 179-183: current_app.logger.exception() raises
\* RuntimeError in a thread without application context, which ends the
\* thread; else the task is COMPLETED with the result file as result
ConversionFailed(t) ==
    /\ thread[t].pc = "conversion_failed"
    /\ IF app_context
       THEN /\ SetStatus(t, "completed", "done_convert_failed", Number(100),
                         RelPath(thread[t].folder, thread[t].result_file))
            /\ thread' = [thread EXCEPT ![t].pc = "returned"]
       ELSE /\ thread' = [thread EXCEPT ![t].pc = "died"]
            /\ UNCHANGED <<sharp_tasks, updates>>
    /\ UNCHANGED <<folders, folder_files, models_xml, app_context, config>>
    /\ UNCHANGED convvars

\* one step of the request or of the background thread of task t
TaskStep(t) ==
    \/ UploadImage(t)
    \/ EnsureUser(t)
    \/ CreateIndex(t)
    \/ PickFolder(t)
    \/ SaveImage(t)
    \/ Processing(t)
    \/ Train(t)
    \/ FindResult(t)
    \/ Convert(t)
    \/ AddModelParse(t)
    \/ AddModelOpen(t)
    \/ AddModelWrite(t)
    \/ Complete(t)
    \/ ConversionFailed(t)

NextWeb == \E t \in TaskIds : TaskStep(t)

SpecWeb == InitWeb /\ [][NextWeb]_vars

\* the server's threads are scheduled fairly and the external
\* reconstruction process terminates: a step that stays possible is taken
SpecWebFair == SpecWeb /\ \A t \in TaskIds : WF_vars(TaskStep(t))

(***************************************************************************)
(* Properties of the web application                                       *)
(***************************************************************************)
\* the background thread of task t has ended: it returned or it was ended
\* by an exception nothing caught
ThreadEnded(t) == thread[t].pc \in {"returned", "died"}

\* the entry of task t in the task table has the given status
HasStatus(t, status) ==
    t \in DOMAIN sharp_tasks /\ sharp_tasks[t].status = status

\* C15: a task whose conversion step raised has, when its thread has ended,
\* the status COMPLETED, the relative path of the original result file as
\* result, and that path registered in the user's model index.
C15_FailedConversionRegistersOriginal ==
    \A t \in DOMAIN thread :
        (thread[t].conversion = "raised" /\ ThreadEnded(t)) =>
            LET rel == RelPath(thread[t].folder, thread[t].result_file)
            IN  /\ HasStatus(t, "completed")
                /\ sharp_tasks[t].result = rel
                /\ Occurrences(models_xml.paths, rel) >= 1

\* save_image has returned to the request of task t
SaveImageReturned(t) ==
    thread[t].pc \notin {"request", "rejected", "ensure_user",
                         "create_index", "pick_folder", "make_folder"}

\* C16: the folder a save_image call returned did not exist when the call
\* made it, and no other save_image call returned the same folder.
C16_SaveImageFolderIsNew ==
    \A t \in DOMAIN thread :
        SaveImageReturned(t) =>
            /\ ~thread[t].existed
            /\ \A u \in DOMAIN thread \ {t} :
                  SaveImageReturned(u) => thread[u].folder # thread[t].folder

\* the moves of a task's status along UPLOADING, UPLOADED, PROCESSING, then
\* FAILED or TRAINING and COMPLETED
ForwardMoves ==
    { <<"uploading", "uploaded">>, <<"uploaded", "processing">>,
      <<"processing", "failed">>, <<"processing", "training">>,
      <<"training", "completed">> }

TerminalStatus == {"completed", "failed"}

C18_StartedTaskTerminates ==
    \A t \in TaskIds :
        (thread[t].pc = "processing") ~>
            (HasStatus(t, "completed") \/ HasStatus(t, "failed"))

\* C19: the progress of every update of a task, the one that marks it
\* FAILED included, is a number from 0 to 100 that is not below the
\* progress of the update before; so is the progress in the task table.
C19_ProgressIsMonotoneNumber ==
    \A t \in DOMAIN updates :
        LET u == updates[t] IN
        /\ \A k \in 1..Len(u) :
              /\ u[k].progress.number
              /\ u[k].progress.value \in 0..100
              /\ k > 1 => u[k - 1].progress.value <= u[k].progress.value
        /\ Len(u) >= 1 => sharp_tasks[t].progress = u[Len(u)].progress

\* an add_model call of task t is under way
AddModelInFlight(t) ==
    thread[t].pc \in {"add_model", "open_index", "write_index"}

\* C20: when no add_model call is under way, every path that an add_model
\* call of a background task added is in the user's model index exactly
\* once; stated for the runs in which every upload got a folder of its own
\* and the index was written by add_model calls only since it was made.
C20_IndexHasEveryAddedPathOnce ==
    (/\ \A t \in DOMAIN thread : ~AddModelInFlight(t)
     /\ C16_SaveImageFolderIsNew
     /\ thread # <<>> => ~models_xml.overwritten) =>
        \A t \in DOMAIN thread :
            thread[t].registered.set =>
                Occurrences(models_xml.paths, thread[t].registered) = 1

=============================================================================
